---- MODULE Spec2Model ----
(***************************************************************************)
(* Character Interaction & Animation Controller of Totono Life             *)
(* (src/src/components/Live2DCharacter.tsx, second component definition,   *)
(* lines 274-811) together with the other writer of the window.charAction  *)
(* slot (src/src/components/SeedAvatar.tsx).                               *)
(*                                                                         *)
(* The browser is single-threaded: every handler, timer callback and       *)
(* continuation of the async setup runs to completion, so each of them is  *)
(* one action.  The awaits of setup are the only suspension points.        *)
(***************************************************************************)
EXTENDS Integers, Sequences, FiniteSets, TLC

(***************************************************************************)
(* Bounds of the model.                                                    *)
(***************************************************************************)
MaxMoves == 2            \* pointermove events delivered within one press
MaxProbes == 2           \* direct triggerMotion calls made back to back
MaxReruns == 1           \* re-runs of the effect of one component after a props change
MaxRenderTicks == 3      \* render ticks delivered to the ticker callback of one surface
MaxIdlePrompts == 2      \* idle prompts that one ChatInterface sends
AgeCap == 60000          \* ages of messages are told apart up to this many ms

\* The Live2DCharacter instances that may be mounted.
Controllers == {1, 2}

(***************************************************************************)
(* Program constants.                                                      *)
(***************************************************************************)
EXPRESSION_COUNT == 8
EXTRA_MOTION_COUNT == 6
MIN_AMBIENT_DELAY == 7000
MAX_AMBIENT_DELAY == 13000
TAP_MOTION_INDEX == 0
PET_MOTION_INDEX == 1
PET_DISTANCE_THRESHOLD == 65
INTERACTION_COOLDOWN == 4500
TAP_COOLDOWN_JITTER == 1200
PET_COOLDOWN_JITTER == 1600
OVERRIDE_FLOOR == 2000
BACKOFF_FLOOR == 1800
EXPRESSION_CHANCE == 450          \* Math.random() < 0.45, in thousandths
RandomScale == 1000               \* Math.random() is drawn in thousandths

idleMotionGroup == "Idle"
EXTRA_MOTION_GROUP == ""

\* Values of the window.charAction slot: undefined, the closure installed by
\* controller i (named i), or the handler of the floating SeedAvatar.
NoHandler == 0
SeedHandler == 3
Handlers == {NoHandler, SeedHandler} \cup Controllers

Actions == {"morning", "night", "miss", "blink"}

VARIABLES
  ctl,          \* per controller: closure variables, refs, React state, runtime
  charAction,   \* window.charAction
  script,       \* the <script src=corePath> element: absent/loading/loaded/failed
  seed,         \* bridge effect of the floating SeedAvatar: new / mounted / unmounted
  emitted,      \* calls made on the models (and SeedAvatar reactions) by the last step
  probe,        \* results of the direct triggerMotion calls made back to back
  documentHidden,  \* document.hidden: the page is not visible
  scriptElements,  \* number of <script src=corePath> elements in the document
  chat             \* ChatInterface: React state, refs and timers of its idle prompts

vars == <<ctl, charAction, script, seed, emitted, probe, documentHidden, scriptElements,
          chat>>


(***************************************************************************)
(* Pure helpers.                                                           *)
(***************************************************************************)
EXPRESSION_IDS ==
  <<"exp_01", "exp_02", "exp_03", "exp_04", "exp_05", "exp_06", "exp_07", "exp_08">>

Max(a, b) == IF a >= b THEN a ELSE b

Min(a, b) == IF a <= b THEN a ELSE b

\* Math.floor(Math.random() * n), the random number given in thousandths.
RandomIndex(r, n) == (r * n) \div RandomScale

\* getRandomExpression
getRandomExpression(r) == EXPRESSION_IDS[RandomIndex(r, EXPRESSION_COUNT) + 1]

Abs(a) == IF a >= 0 THEN a ELSE 0 - a

HypotAtLeast_Manhattan(dx, dy, limit) == Abs(dx) + Abs(dy) >= limit

\* Math.hypot(dx, dy) >= limit, on integers.
HypotAtLeast(dx, dy, limit) == dx * dx + dy * dy >= limit * limit

\* Length of a pointer displacement (the pointer positions of the model lie
\* on a 3-4-5 line, so every displacement has an integer length).
MaxCoordinate == 200
Dist(dx, dy) == CHOOSE n \in 0..(2 * MaxCoordinate) : n * n = dx * dx + dy * dy

\* Pointer positions (event.global) delivered by the renderer: k * (3, 4),
\* at distance 5 * k from the origin.
Point(k) == [x |-> 3 * k, y |-> 4 * k]
CoarsePoints == {Point(0), Point(16)}
FinePoints == {Point(0), Point(10), Point(13), Point(16)}

\* Values drawn for Math.random(), in thousandths.
RandomDraws == {0, 500}

(***************************************************************************)
(* The Layout Calculator.  Lengths are in thousandths of a pixel and        *)
(* scales in millionths; the ratios of a profile are in thousandths, its    *)
(* scale factor, scale bounds and vertical shift in hundredths; a division  *)
(* rounds down.  width, height, nativeWidth and nativeHeight are whole      *)
(* pixels.                                                                  *)
(***************************************************************************)
clampValue_NoLower(value, min, max) == Min(max, value)

clampValue(value, min, max) == Min(max, Max(min, value))

getLayoutProfile(width, height) ==
  IF width <= 420 THEN
    [horizontalRatio |-> 45, verticalRatio |-> 80,
     minHorizontalMargin |-> 20, minVerticalMargin |-> 36,
     scaleFactor |-> 78, minScale |-> 22, maxScale |-> 36,
     verticalShift |-> IF height <= 640 THEN 8 ELSE 6]
  ELSE IF width <= 640 THEN
    [horizontalRatio |-> 60, verticalRatio |-> 100,
     minHorizontalMargin |-> 28, minVerticalMargin |-> 48,
     scaleFactor |-> 80, minScale |-> 24, maxScale |-> 38,
     verticalShift |-> IF height <= 720 THEN 6 ELSE 5]
  ELSE IF width <= 960 THEN
    [horizontalRatio |-> 80, verticalRatio |-> 120,
     minHorizontalMargin |-> 40, minVerticalMargin |-> 56,
     scaleFactor |-> 82, minScale |-> 26, maxScale |-> 40,
     verticalShift |-> IF height <= 820 THEN 4 ELSE 3]
  ELSE
    [horizontalRatio |-> 100, verticalRatio |-> 140,
     minHorizontalMargin |-> 48, minVerticalMargin |-> 60,
     scaleFactor |-> 85, minScale |-> 28, maxScale |-> 42,
     verticalShift |-> IF height <= 900 THEN 3 ELSE 2]

\* Math.max(width * horizontalRatio, minHorizontalMargin)
horizontalMargin(width, layoutProfile) ==
  Max(width * layoutProfile.horizontalRatio, layoutProfile.minHorizontalMargin * 1000)

\* Math.max(height * verticalRatio, minVerticalMargin)
verticalMargin(height, layoutProfile) ==
  Max(height * layoutProfile.verticalRatio, layoutProfile.minVerticalMargin * 1000)

\* A layoutScale whose available width and height have no minimum.
layoutScale_NoAvailableFloor(width, height, nativeWidth, nativeHeight) ==
  LET layoutProfile == getLayoutProfile(width, height)
      availableWidth == width * 1000 - horizontalMargin(width, layoutProfile) * 2
      availableHeight == height * 1000 - verticalMargin(height, layoutProfile) * 2
      baselineScale == Min((availableWidth * layoutProfile.scaleFactor * 10) \div nativeWidth,
                           (availableHeight * layoutProfile.scaleFactor * 10) \div nativeHeight)
  IN clampValue(baselineScale, layoutProfile.minScale * 10000, layoutProfile.maxScale * 10000)

\* rawScale * scaleFactor, clamped to the bounds of the profile.
layoutScale(width, height, nativeWidth, nativeHeight) ==
  LET layoutProfile == getLayoutProfile(width, height)
      availableWidth == Max(width * 1000 - horizontalMargin(width, layoutProfile) * 2, 1000)
      availableHeight == Max(height * 1000 - verticalMargin(height, layoutProfile) * 2, 1000)
      baselineScale == Min((availableWidth * layoutProfile.scaleFactor * 10) \div nativeWidth,
                           (availableHeight * layoutProfile.scaleFactor * 10) \div nativeHeight)
  IN clampValue(baselineScale, layoutProfile.minScale * 10000, layoutProfile.maxScale * 10000)

\* nativeHeight * scale
scaledHeight(nativeHeight, scale) == (nativeHeight * scale) \div 1000

\* (nativeHeight * scale) / 2 + verticalMargin * 0.35
minY(height, nativeHeight, scale, layoutProfile) ==
  scaledHeight(nativeHeight, scale) \div 2
    + (verticalMargin(height, layoutProfile) * 35) \div 100

\* The scale and the position that setup gives to the model.
layoutModel(width, height, nativeWidth, nativeHeight) ==
  LET layoutProfile == getLayoutProfile(width, height)
      scale == layoutScale(width, height, nativeWidth, nativeHeight)
      posX == width * 500
      posY == height * 1000 - verticalMargin(height, layoutProfile)
                - scaledHeight(nativeHeight, scale) \div 2
                - (scaledHeight(nativeHeight, scale) * layoutProfile.verticalShift) \div 100
  IN [scale |-> scale, x |-> posX,
      y |-> Max(minY(height, nativeHeight, scale, layoutProfile), posY)]

\* Container sizes and native model sizes (getCanvasWidth, getCanvasHeight)
\* that the layout is computed for; 320 x 360 are the defaults of the props,
\* 1 x 1 is the fallback for a model without canvas size, and a container of
\* 40 x 60 is smaller than its margins.
LayoutWidths == {40, 320, 420, 421, 640, 641, 960, 961, 1280}
LayoutHeights == {60, 360, 720}
NativeSizes == {<<1, 1>>, <<1000, 1500>>, <<2400, 4500>>}

(***************************************************************************)
(* State of one controller instance after construction of the component.   *)
(***************************************************************************)
\* ChatInterface before it mounts.  Times are kept as ages in ms: lastAge is
\* the age of the timestamp of the last message, lastUserAge and
\* lastCharacterAge those of lastUserMessageRef and
\* lastCharacterInitiatedRef.  sentWith records what maybeSendIdlePrompt saw
\* when it last sent a prompt.
InitChat ==
  [ life             |-> "new",
    idleRangeMs      |-> <<40000, 70000>>,
    inputText        |-> "",
    isTyping         |-> FALSE,
    lastSender       |-> "character",
    lastAge          |-> 0,
    lastUserAge      |-> 0,
    lastCharacterAge |-> 0,
    idleTimerRef     |-> 0,
    timers           |-> {},
    sent             |-> 0,
    sentWith         |-> [hidden |-> FALSE, isTyping |-> FALSE, inputText |-> "",
                          lastUserAge |-> 0, lastCharacterAge |-> 0] ]

InitPointerState == [isDown |-> FALSE, hasDragged |-> FALSE, lastX |-> 0, lastY |-> 0]

InitGesture ==
  [phase |-> "idle", cum |-> 0, moves |-> 0, pets |-> 0, taps |-> 0, end |-> "none"]

InitController ==
  [ width             |-> 320,         \* props of the component
    height            |-> 360,
    nativeWidth       |-> 1,           \* canvas size of the model at modelPath
    nativeHeight      |-> 1,
    layout            |-> [scale |-> 0, x |-> 0, y |-> 0],  \* scale and position of the model
    life              |-> "new",       \* new / mounted / unmounted
    pc                |-> "idle",      \* where setup is suspended
    coreWait          |-> "none",      \* promise of ensureCubismCoreLoaded
    cancelled         |-> FALSE,
    previousHandler   |-> NoHandler,
    status            |-> "loading",
    app               |-> "none",      \* the Application made by setup
    appDestroys       |-> 0,           \* times app.destroy was invoked
    canvasAttached    |-> FALSE,
    appRef            |-> FALSE,       \* appRef.current is the Application
    model             |-> "none",      \* the Live2DModel made by setup
    modelDestroys     |-> 0,
    modelRef          |-> FALSE,       \* modelRef.current is the model
    tickerCallbackRef |-> FALSE,
    tickerAdded       |-> FALSE,
    listeners         |-> FALSE,       \* pointer handlers registered on the model
    detach            |-> FALSE,       \* detachInteractionHandlers is non-empty
    pointerState      |-> InitPointerState,
    motions           |-> {},          \* motion groups the runtime is playing
    ambientTimeoutRef |-> 0,           \* 0 is null
    timers            |-> {},          \* pending timeouts: id, delay, time left
    quiet             |-> 0,           \* ms left of the cooldown after the last interaction
    installed         |-> FALSE,       \* setup has assigned window.charAction
    gesture           |-> InitGesture, \* bookkeeping of the current press
    teardown          |-> <<>>,        \* steps done by the effect cleanup, in order
    reruns            |-> 0,           \* times the effect was re-run after a props change
    orphans           |-> 0,           \* setups of earlier effect runs still suspended
    renderTicks       |-> 0,           \* render ticks the ticker callback has received
    idlePlayed        |-> {},          \* indices of the idle group started on the model
    disposed          |-> <<>> ]       \* destroy calls on the surface and the model, in order

Init ==
  /\ ctl = [i \in Controllers |-> InitController]
  /\ charAction = NoHandler
  /\ script = "absent"
  /\ seed = "new"
  /\ emitted = <<>>
  /\ probe = <<>>
  /\ documentHidden = FALSE
  /\ scriptElements = 0
  /\ chat = InitChat

(***************************************************************************)
(* The Director: calls into the model runtime.  A world w carries the      *)
(* controller record being changed, the calls made so far in this step     *)
(* and the return value of the last operation.                             *)
(***************************************************************************)
\* thrown: an exception is propagating out of the code run so far.
World(i, c) == [i |-> i, c |-> c, log |-> <<>>, ret |-> FALSE, thrown |-> FALSE]

Call(i, op, arg, index, ok) == [c |-> i, op |-> op, arg |-> arg, index |-> index, ok |-> ok]

\* isMotionPlaying: motionManager.isPlaying() / !motionManager.isFinished().
\* The runtime reports a motion as playing from the call that starts it
\* until its playback has finished or all motions are stopped.
isMotionPlaying(c) == c.motions # {}

\* motionManager.stopAllMotions()
stopAllMotions(w) ==
  [w EXCEPT !.c.motions = {},
            !.log = Append(@, Call(w.i, "stopAllMotions", "", 0, TRUE))]

\* currentModel.motion(group, index); ok = FALSE when the runtime throws.
motion(w, group, index, ok) ==
  [w EXCEPT !.c.motions = IF ok THEN @ \cup {group} ELSE @,
            !.c.idlePlayed = IF ok /\ group = idleMotionGroup THEN @ \cup {index} ELSE @,
            !.log = Append(@, Call(w.i, "motion", group, index, ok)),
            !.thrown = ~ok]

\* currentModel.expression(id)
expression(w, id, ok) ==
  [w EXCEPT !.log = Append(@, Call(w.i, "expression", id, 0, ok)),
            !.thrown = ~ok]

startIdleMotion(w, ok) ==
  IF ~w.c.modelRef THEN w
  ELSE [motion(stopAllMotions(w), idleMotionGroup, 0, ok) EXCEPT !.thrown = FALSE]

\* A triggerMotion that stops the playing motions for the idle group too.
triggerMotion_IdleStopsAll(w, group, index, force, ok) ==
  IF ~w.c.modelRef THEN [w EXCEPT !.ret = FALSE]
  ELSE IF group # idleMotionGroup /\ ~force /\ isMotionPlaying(w.c)
       THEN [w EXCEPT !.ret = FALSE]
       ELSE [motion(stopAllMotions(w), group, index, ok)
               EXCEPT !.ret = ok, !.thrown = FALSE]

triggerMotion(w, group, index, force, ok) ==
  IF ~w.c.modelRef THEN [w EXCEPT !.ret = FALSE]
  ELSE LET isIdleGroup == group = idleMotionGroup
           shouldForce == force
       IN IF ~isIdleGroup /\ ~shouldForce /\ isMotionPlaying(w.c)
          THEN [w EXCEPT !.ret = FALSE]
          ELSE LET w1 == IF ~isIdleGroup THEN stopAllMotions(w) ELSE w
               IN [motion(w1, group, index, ok) EXCEPT !.ret = ok, !.thrown = FALSE]

\* A triggerExpression that reports a throwing runtime call as a failure of
\* the component.
triggerExpression_ErrorOnThrow(w, id, ok) ==
  IF ~w.c.modelRef THEN w
  ELSE [expression(w, id, ok) EXCEPT !.c.status = IF ok THEN @ ELSE "error",
                                     !.thrown = FALSE]

\* A triggerExpression without its try/catch.
triggerExpression_Unguarded(w, id, ok) ==
  IF ~w.c.modelRef THEN w ELSE expression(w, id, ok)

triggerExpression(w, id, ok) ==
  IF ~w.c.modelRef THEN w ELSE [expression(w, id, ok) EXCEPT !.thrown = FALSE]

(***************************************************************************)
(* The Ambient Scheduler.                                                  *)
(***************************************************************************)
TimerIds(c) == {t.id : t \in c.timers}

\* window.setTimeout returns an id that no pending timeout has.
FreshTimerId(c) ==
  CHOOSE n \in 1..(Cardinality(c.timers) + 1) :
    /\ n \notin TimerIds(c)
    /\ \A m \in 1..(Cardinality(c.timers) + 1) : m \notin TimerIds(c) => n <= m

\* window.clearTimeout(id)
clearTimeout(c, id) == [c EXCEPT !.timers = {t \in @ : t.id # id}]

baseDelay_NoFloor(hasOverride, delayOverride, r) ==
  IF hasOverride THEN delayOverride
  ELSE MIN_AMBIENT_DELAY + (r * (MAX_AMBIENT_DELAY - MIN_AMBIENT_DELAY)) \div RandomScale

\* A baseDelay whose sample without override starts at zero.
baseDelay_SampleFromZero(hasOverride, delayOverride, r) ==
  IF hasOverride THEN Max(delayOverride, OVERRIDE_FLOOR)
  ELSE (r * MAX_AMBIENT_DELAY) \div RandomScale

\* baseDelay of scheduleAmbientMotion; hasOverride is typeof delayOverride === 'number'.
baseDelay(hasOverride, delayOverride, r) ==
  IF hasOverride THEN Max(delayOverride, OVERRIDE_FLOOR)
  ELSE MIN_AMBIENT_DELAY + (r * (MAX_AMBIENT_DELAY - MIN_AMBIENT_DELAY)) \div RandomScale

CancelPending_Skip(c) == c

\* The first statement of scheduleAmbientMotion.
CancelPending(c) ==
  IF c.ambientTimeoutRef # 0 THEN clearTimeout(c, c.ambientTimeoutRef) ELSE c

scheduleAmbientMotion(w, hasOverride, delayOverride, r) ==
  LET c1 == CancelPending(w.c)
      id == FreshTimerId(c1)
      d  == baseDelay(hasOverride, delayOverride, r)
      t  == [id |-> id, delay |-> d, left |-> d, override |-> hasOverride]
  IN [w EXCEPT !.c = [c1 EXCEPT !.timers = @ \cup {t}, !.ambientTimeoutRef = id]]


ambientCallback_ActsWhilePlaying(w, t, rPick, rWhich, rDelay, ok) ==
  LET w0 == [w EXCEPT !.c.timers = @ \ {t}, !.c.ambientTimeoutRef = 0]
      w1 == IF rPick < EXPRESSION_CHANCE
              THEN triggerExpression(w0, getRandomExpression(rWhich), ok)
              ELSE triggerMotion(w0, EXTRA_MOTION_GROUP,
                                 RandomIndex(rWhich, EXTRA_MOTION_COUNT), TRUE, ok)
  IN IF ~w0.c.modelRef THEN w0 ELSE scheduleAmbientMotion(w1, FALSE, 0, rDelay)

ambientCallback_StopsOnThrow(w, t, rPick, rWhich, rDelay, ok) ==
  LET w0 == [w EXCEPT !.c.timers = @ \ {t}, !.c.ambientTimeoutRef = 0]
  IN IF ~w0.c.modelRef THEN w0
     ELSE IF isMotionPlaying(w0.c)
       THEN scheduleAmbientMotion(w0, TRUE, Max(t.delay \div 2, BACKOFF_FLOOR), rDelay)
       ELSE LET w1 == IF rPick < EXPRESSION_CHANCE
                        THEN triggerExpression(w0, getRandomExpression(rWhich), ok)
                        ELSE triggerMotion(w0, EXTRA_MOTION_GROUP,
                                           RandomIndex(rWhich, EXTRA_MOTION_COUNT), TRUE, ok)
            IN IF ok THEN scheduleAmbientMotion(w1, FALSE, 0, rDelay) ELSE w1

\* The callback of the timeout armed by scheduleAmbientMotion, whose closure
\* holds baseDelay = t.delay.  rPick, rWhich, rDelay are the values of the
\* Math.random() calls.
ambientCallback(w, t, rPick, rWhich, rDelay, ok) ==
  LET w0 == [w EXCEPT !.c.timers = @ \ {t}, !.c.ambientTimeoutRef = 0]
  IN IF ~w0.c.modelRef THEN w0
     ELSE IF isMotionPlaying(w0.c)
       THEN scheduleAmbientMotion(w0, TRUE, Max(t.delay \div 2, BACKOFF_FLOOR), rDelay)
       ELSE LET w1 == IF rPick < EXPRESSION_CHANCE
                        THEN triggerExpression(w0, getRandomExpression(rWhich), ok)
                        ELSE triggerMotion(w0, EXTRA_MOTION_GROUP,
                                           RandomIndex(rWhich, EXTRA_MOTION_COUNT), TRUE, ok)
            IN scheduleAmbientMotion(w1, FALSE, 0, rDelay)

(***************************************************************************)
(* The Gesture Interpreter (setupInteractionHandlers).                     *)
(***************************************************************************)
getPointerPosition(event) == [x |-> event.x, y |-> event.y]

handlePointerTap_NoReschedule(w, okMotion, okExpression, rWhich, rDelay) ==
  LET w0 == [w EXCEPT !.c.pointerState.hasDragged = FALSE,
                      !.c.gesture.taps = @ + 1,
                      !.c.quiet = INTERACTION_COOLDOWN]
      w1 == triggerMotion(w0, EXTRA_MOTION_GROUP, TAP_MOTION_INDEX, TRUE, okMotion)
  IN IF ~w1.ret
     THEN triggerExpression(w1, getRandomExpression(rWhich), okExpression)
     ELSE w1

\* A tap that requests an expression whatever the motion request returned.
handlePointerTap_AlwaysExpression(w, okMotion, okExpression, rWhich, rDelay) ==
  LET w0 == [w EXCEPT !.c.pointerState.hasDragged = FALSE,
                      !.c.gesture.taps = @ + 1,
                      !.c.quiet = INTERACTION_COOLDOWN]
      w1 == triggerMotion(w0, EXTRA_MOTION_GROUP, TAP_MOTION_INDEX, TRUE, okMotion)
      w2 == triggerExpression(w1, getRandomExpression(rWhich), okExpression)
  IN scheduleAmbientMotion(w2, TRUE,
       INTERACTION_COOLDOWN + (rDelay * TAP_COOLDOWN_JITTER) \div RandomScale, 0)

handlePointerTap(w, okMotion, okExpression, rWhich, rDelay) ==
  LET w0 == [w EXCEPT !.c.pointerState.hasDragged = FALSE,
                      !.c.gesture.taps = @ + 1,
                      !.c.quiet = INTERACTION_COOLDOWN]
      w1 == triggerMotion(w0, EXTRA_MOTION_GROUP, TAP_MOTION_INDEX, TRUE, okMotion)
      w2 == IF ~w1.ret
              THEN triggerExpression(w1, getRandomExpression(rWhich), okExpression)
              ELSE w1
  IN scheduleAmbientMotion(w2, TRUE,
       INTERACTION_COOLDOWN + (rDelay * TAP_COOLDOWN_JITTER) \div RandomScale, 0)

handlePointerDown(w, event) ==
  LET position == getPointerPosition(event)
  IN [w EXCEPT !.c.pointerState =
                  [isDown |-> TRUE, hasDragged |-> FALSE,
                   lastX |-> position.x, lastY |-> position.y],
               !.c.gesture = [InitGesture EXCEPT !.phase = "down"]]

handlePointerMove(w, event, ok, rDelay) ==
  IF ~w.c.pointerState.isDown THEN w
  ELSE
    LET position == getPointerPosition(event)
        dx == position.x - w.c.pointerState.lastX
        dy == position.y - w.c.pointerState.lastY
        w0 == [w EXCEPT !.c.pointerState.lastX = position.x,
                        !.c.pointerState.lastY = position.y,
                        !.c.gesture.cum = @ + Dist(dx, dy),
                        !.c.gesture.moves = @ + 1]
    IN IF ~w0.c.pointerState.hasDragged /\ HypotAtLeast(dx, dy, PET_DISTANCE_THRESHOLD)
       THEN LET w1 == triggerMotion(w0, EXTRA_MOTION_GROUP, PET_MOTION_INDEX, TRUE, ok)
                w2 == [w1 EXCEPT !.c.pointerState.hasDragged = w1.ret,
                                 !.c.gesture.pets = @ + 1,
                                 !.c.quiet = IF w1.ret THEN INTERACTION_COOLDOWN ELSE @]
            IN IF w2.c.pointerState.hasDragged
               THEN scheduleAmbientMotion(w2, TRUE,
                      INTERACTION_COOLDOWN + (rDelay * PET_COOLDOWN_JITTER) \div RandomScale, 0)
               ELSE w2
       ELSE w0

\* handlePointerUp without the reset of lastX and lastY.
handlePointerUp_KeepsPosition(w) ==
  [w EXCEPT !.c.pointerState.isDown = FALSE,
            !.c.pointerState.hasDragged = FALSE]

handlePointerUp(w) ==
  [w EXCEPT !.c.pointerState = InitPointerState]

(***************************************************************************)
(* The External Action Bridge.                                             *)
(***************************************************************************)
charActionBody_NoReschedule(w, action, ok) ==
  LET w1 == CASE action \in {"morning", "night"} ->
                   triggerMotion(w, idleMotionGroup, 0, TRUE, ok)
              [] action = "miss" ->
                   [triggerExpression(w, "exp_05", ok) EXCEPT !.ret = TRUE]
              [] action = "blink" ->
                   [triggerExpression(w, "exp_01", ok) EXCEPT !.ret = TRUE]
              [] OTHER -> [w EXCEPT !.ret = FALSE]
  IN IF w1.ret THEN [w1 EXCEPT !.c.quiet = INTERACTION_COOLDOWN] ELSE w1

charActionBody_MissPlaysMotion(w, action, ok) ==
  LET w1 == CASE action \in {"morning", "night"} ->
                   triggerMotion(w, idleMotionGroup, 0, TRUE, ok)
              [] action = "miss" ->
                   [triggerMotion(triggerExpression(w, "exp_05", ok),
                                  EXTRA_MOTION_GROUP, 0, TRUE, ok) EXCEPT !.ret = TRUE]
              [] action = "blink" ->
                   [triggerExpression(w, "exp_01", ok) EXCEPT !.ret = TRUE]
              [] OTHER -> [w EXCEPT !.ret = FALSE]
  IN IF w1.ret
     THEN scheduleAmbientMotion([w1 EXCEPT !.c.quiet = INTERACTION_COOLDOWN],
                                TRUE, INTERACTION_COOLDOWN, 0)
     ELSE w1

\* A handler that re-arms the timer whether or not the action was handled.
charActionBody_AlwaysReschedules(w, action, ok) ==
  LET w1 == CASE action \in {"morning", "night"} ->
                   triggerMotion(w, idleMotionGroup, 0, TRUE, ok)
              [] action = "miss" ->
                   [triggerExpression(w, "exp_05", ok) EXCEPT !.ret = TRUE]
              [] action = "blink" ->
                   [triggerExpression(w, "exp_01", ok) EXCEPT !.ret = TRUE]
              [] OTHER -> [w EXCEPT !.ret = FALSE]
  IN scheduleAmbientMotion([w1 EXCEPT !.c.quiet = INTERACTION_COOLDOWN],
                           TRUE, INTERACTION_COOLDOWN, 0)

\* The closure that setup of controller i assigns to window.charAction,
\* without its first statement (the call of previousHandler).
charActionBody(w, action, ok) ==
  LET w1 == CASE action \in {"morning", "night"} ->
                   triggerMotion(w, idleMotionGroup, 0, TRUE, ok)
              [] action = "miss" ->
                   [triggerExpression(w, "exp_05", ok) EXCEPT !.ret = TRUE]
              [] action = "blink" ->
                   [triggerExpression(w, "exp_01", ok) EXCEPT !.ret = TRUE]
              [] OTHER -> [w EXCEPT !.ret = FALSE]
      handled == w1.ret
  IN IF handled
     THEN scheduleAmbientMotion([w1 EXCEPT !.c.quiet = INTERACTION_COOLDOWN],
                                TRUE, INTERACTION_COOLDOWN, 0)
     ELSE w1

\* The handlers run by a call of handler h, in the order in which their
\* bodies run: every controller's closure calls its previousHandler first.
RECURSIVE ChainSeq(_, _)
ChainSeq(c, h) ==
  IF h = NoHandler THEN <<>>
  ELSE IF h = SeedHandler THEN <<SeedHandler>>
  ELSE Append(ChainSeq(c, c[h].previousHandler), h)

Range(f) == {f[k] : k \in DOMAIN f}

\* The providers a bridge call reaches.
Reached(c, h) == Range(ChainSeq(c, h))


(***************************************************************************)
(* The asynchronous setup of the effect.                                   *)
(***************************************************************************)
ensureCubismCoreLoaded_AlwaysAppends(sc) ==
  IF sc = "loaded" THEN [script |-> sc, wait |-> "resolved", appended |-> FALSE]
  ELSE [script |-> "loading", wait |-> "pending", appended |-> TRUE]

\* ensureCubismCoreLoaded up to its await: the state of the script element
\* afterwards, the state of the promise the caller awaits, and whether a
\* script element was appended to the document.  A loaded script has
\* defined window.Live2DCubismCore.
ensureCubismCoreLoaded(sc) ==
  IF sc = "loaded" THEN [script |-> sc, wait |-> "resolved", appended |-> FALSE]
  ELSE IF sc # "absent" THEN [script |-> sc, wait |-> "pending", appended |-> FALSE]
  ELSE [script |-> "loading", wait |-> "pending", appended |-> TRUE]

\* window.charAction as read at the start of the effect.
CapturePreviousHandler(slot) == slot

\* catch (error) of setup.
setupCatch(c) ==
  [c EXCEPT !.status = IF ~c.cancelled THEN "error" ELSE @, !.pc = "done"]

\* The check after the awaits of the script and of the module imports.
CancelledAfterImport(c) == c.cancelled \/ c.life # "mounted"

\* new Application(...), appendChild(canvas), appRef.current = app.
createSurface(c) ==
  [c EXCEPT !.app = "live", !.canvasAttached = TRUE, !.appRef = TRUE, !.pc = "model"]

CancelledAfterModel_Never(c) == FALSE

\* The check after the await of Live2DModel.from.
CancelledAfterModel(c) == c.cancelled

\* app.destroy(true, ...): a second call on the same Application throws and
\* changes nothing (inside setup the throw ends in its catch).
destroyApp(c) ==
  [c EXCEPT !.app = "destroyed", !.canvasAttached = FALSE, !.appDestroys = @ + 1,
            !.disposed = Append(@, "surface")]

\* model.destroy(...): the model leaves the stage and loses its listeners.
destroyModel(c) ==
  [c EXCEPT !.model = "destroyed", !.listeners = FALSE, !.motions = {},
            !.modelDestroys = @ + 1,
            !.disposed = Append(@, "model")]

\* setup from the resolution of Live2DModel.from to its end, not cancelled.
setupReady(w, okIdle, rDelay) ==
  LET w0 == [w EXCEPT !.c.model = "live",
                      !.c.layout = layoutModel(w.c.width, w.c.height,
                                               w.c.nativeWidth, w.c.nativeHeight),
                      !.c.listeners = TRUE,
                      !.c.detach = TRUE,
                      !.c.pointerState = InitPointerState,
                      !.c.modelRef = TRUE,
                      !.c.tickerCallbackRef = TRUE,
                      !.c.tickerAdded = TRUE,
                      !.c.status = "ready"]
      w1 == startIdleMotion(w0, okIdle)
      w2 == scheduleAmbientMotion(w1, FALSE, 0, rDelay)
  IN [w2 EXCEPT !.c.installed = TRUE, !.c.pc = "done"]

\* setup resumed with the loaded model.
setupAfterModel(w, okIdle, rDelay) ==
  IF CancelledAfterModel(w.c)
  THEN [w EXCEPT !.c = [destroyApp(destroyModel([w.c EXCEPT !.model = "live"]))
                          EXCEPT !.pc = "done"]]
  ELSE setupReady(w, okIdle, rDelay)

(***************************************************************************)
(* The cleanup of the effect, statement by statement.                      *)
(***************************************************************************)
Did(c, step) == [c EXCEPT !.teardown = Append(@, step)]

\* window.charAction after "if (previousHandler) ... else delete".
RestoredSlot(c, slot) == c.previousHandler

CleanupBridge(c) == Did([c EXCEPT !.cancelled = TRUE], "bridge")

CleanupTicker(c) ==
  IF c.appRef /\ c.tickerCallbackRef
  THEN Did([c EXCEPT !.tickerAdded = FALSE], "ticker") ELSE c

CleanupModel_KeepRef(c) ==
  IF c.modelRef THEN Did(destroyModel(c), "model") ELSE c

CleanupModel(c) ==
  IF c.modelRef THEN Did([destroyModel(c) EXCEPT !.modelRef = FALSE], "model") ELSE c

CleanupSurface_OnlyReady(c) ==
  IF c.appRef /\ c.status = "ready"
  THEN Did([destroyApp(c) EXCEPT !.appRef = FALSE], "surface") ELSE c

CleanupSurface(c) ==
  IF c.appRef THEN Did([destroyApp(c) EXCEPT !.appRef = FALSE], "surface") ELSE c

CleanupTimer(c) ==
  IF c.ambientTimeoutRef # 0
  THEN Did([clearTimeout(c, c.ambientTimeoutRef) EXCEPT !.ambientTimeoutRef = 0], "timer")
  ELSE c

CleanupListeners(c) ==
  IF c.detach
  THEN Did([c EXCEPT !.listeners = FALSE, !.detach = FALSE], "listeners") ELSE c

cleanup(c) ==
  CleanupListeners(CleanupTimer(CleanupSurface(CleanupModel(CleanupTicker(CleanupBridge(c))))))


(***************************************************************************)
(* Actions.                                                                *)
(***************************************************************************)
Put(i, w) == ctl' = [ctl EXCEPT ![i] = w.c]

\* The component mounts: the effect runs up to the first await of setup.
Mount(i) ==
  /\ ctl[i].life = "new"
  /\ LET r == ensureCubismCoreLoaded(script)
     IN /\ ctl' = [ctl EXCEPT ![i] = [@ EXCEPT !.life = "mounted",
                                               !.pc = "core",
                                               !.coreWait = r.wait,
                                               !.previousHandler = CapturePreviousHandler(charAction)]]
        /\ script' = r.script
        /\ scriptElements' = scriptElements + (IF r.appended THEN 1 ELSE 0)
  /\ emitted' = <<>>
  /\ UNCHANGED <<charAction, seed>>
  /\ probe' = <<>>
  /\ UNCHANGED <<documentHidden, chat>>

\* load event of the script element: the runtime is defined, waiters resolve.
ScriptLoaded ==
  /\ script = "loading"
  /\ script' = "loaded"
  /\ ctl' = [i \in Controllers |->
               IF ctl[i].coreWait = "pending" THEN [ctl[i] EXCEPT !.coreWait = "resolved"]
               ELSE ctl[i]]
  /\ emitted' = <<>>
  /\ UNCHANGED <<charAction, seed>>
  /\ probe' = <<>>
  /\ UNCHANGED <<documentHidden, scriptElements, chat>>

\* error event of the script element: waiters reject.
ScriptFailed ==
  /\ script = "loading"
  /\ script' = "failed"
  /\ ctl' = [i \in Controllers |->
               IF ctl[i].coreWait = "pending" THEN [ctl[i] EXCEPT !.coreWait = "rejected"]
               ELSE ctl[i]]
  /\ emitted' = <<>>
  /\ UNCHANGED <<charAction, seed>>
  /\ probe' = <<>>
  /\ UNCHANGED <<documentHidden, scriptElements, chat>>

\* setup resumes after await ensureCubismCoreLoaded and starts the imports.
CoreAwaited(i) ==
  /\ ctl[i].pc = "core"
  /\ ctl[i].coreWait \in {"resolved", "rejected"}
  /\ ctl' = [ctl EXCEPT ![i] = IF ctl[i].coreWait = "resolved"
                                 THEN [@ EXCEPT !.pc = "import"]
                                 ELSE setupCatch(@)]
  /\ emitted' = <<>>
  /\ UNCHANGED <<charAction, script, seed>>
  /\ probe' = <<>>
  /\ UNCHANGED <<documentHidden, scriptElements, chat>>

\* setup resumes after await Promise.all([import, import]).
ImportsAwaited(i, ok) ==
  /\ ctl[i].pc = "import"
  /\ ctl' = [ctl EXCEPT ![i] = IF ~ok THEN setupCatch(@)
                                 ELSE IF CancelledAfterImport(@) THEN [@ EXCEPT !.pc = "done"]
                                 ELSE createSurface(@)]
  /\ emitted' = <<>>
  /\ UNCHANGED <<charAction, script, seed>>
  /\ probe' = <<>>
  /\ UNCHANGED <<documentHidden, scriptElements, chat>>

\* setup resumes after await Live2DModel.from and runs to its end.
ModelAwaited(i, ok, okIdle, rDelay) ==
  /\ ctl[i].pc = "model"
  /\ IF ~ok
     THEN /\ ctl' = [ctl EXCEPT ![i] = setupCatch(@)]
          /\ emitted' = <<>>
          /\ UNCHANGED charAction
     ELSE LET w == setupAfterModel(World(i, ctl[i]), okIdle, rDelay)
          IN /\ Put(i, w)
             /\ emitted' = w.log
             /\ charAction' = IF w.c.installed THEN i ELSE charAction
  /\ UNCHANGED <<script, seed>>
  /\ probe' = <<>>
  /\ UNCHANGED <<documentHidden, scriptElements, chat>>

\* The component unmounts: the cleanup of the effect runs.
Unmount(i) ==
  /\ ctl[i].life = "mounted"
  /\ ctl' = [ctl EXCEPT ![i] = [cleanup(@) EXCEPT !.life = "unmounted"]]
  /\ charAction' = RestoredSlot(ctl[i], charAction)
  /\ emitted' = <<>>
  /\ UNCHANGED <<script, seed>>
  /\ probe' = <<>>
  /\ UNCHANGED <<documentHidden, scriptElements, chat>>

\* The props width and height of a mounted component change (CharacterView
\* passes its viewport): they are dependencies of the effect, so React runs
\* the cleanup of the current effect run and then the effect again, up to
\* the first await of the new setup.  The refs and the status state belong
\* to the component and are kept; the closure variables are those of the
\* new run.  The closures of the earlier run read the same refs and are not
\* told apart from those of the new run.
Rerun(i, width, height) ==
  /\ ctl[i].life = "mounted"
  /\ ctl[i].reruns < MaxReruns
  /\ <<width, height>> # <<ctl[i].width, ctl[i].height>>
  /\ LET c1 == cleanup(ctl[i])
         slot == RestoredSlot(ctl[i], charAction)
         r == ensureCubismCoreLoaded(script)
     IN /\ ctl' = [ctl EXCEPT ![i] =
                     [c1 EXCEPT !.width = width,
                                !.height = height,
                                !.reruns = @ + 1,
                                !.orphans = IF ctl[i].pc \in {"core", "import", "model"}
                                              THEN @ + 1 ELSE @,
                                !.cancelled = FALSE,
                                !.previousHandler = CapturePreviousHandler(slot),
                                !.pc = "core",
                                !.coreWait = r.wait,
                                !.app = "none",
                                !.appDestroys = 0,
                                !.model = "none",
                                !.modelDestroys = 0,
                                !.installed = FALSE,
                                !.teardown = <<>>,
                                !.renderTicks = 0,
                                !.idlePlayed = {},
                                !.disposed = <<>>]]
        /\ charAction' = slot
        /\ script' = r.script
        /\ scriptElements' = scriptElements + (IF r.appended THEN 1 ELSE 0)
  /\ emitted' = <<>>
  /\ UNCHANGED seed
  /\ probe' = <<>>
  /\ UNCHANGED <<documentHidden, chat>>

\* The suspended setup of an earlier effect run resumes.  Its cancelled flag
\* is set: it returns after the imports, or destroys the model and the
\* surface it holds after the model load, and touches neither a ref nor the
\* status.
OrphanSettles(i) ==
  /\ ctl[i].orphans > 0
  /\ ctl' = [ctl EXCEPT ![i].orphans = @ - 1]
  /\ emitted' = <<>>
  /\ UNCHANGED <<charAction, script, seed>>
  /\ probe' = <<>>
  /\ UNCHANGED <<documentHidden, scriptElements, chat>>

\* pointerdown on the model.
PointerDown(i, p) ==
  /\ ctl[i].listeners
  /\ ctl[i].gesture.phase # "down"
  /\ Put(i, handlePointerDown(World(i, ctl[i]), p))
  /\ emitted' = <<>>
  /\ UNCHANGED <<charAction, script, seed>>
  /\ probe' = <<>>
  /\ UNCHANGED <<documentHidden, scriptElements, chat>>

\* pointermove on the model.
PointerMove(i, p, ok, rDelay, maxMoves) ==
  /\ ctl[i].listeners
  /\ ctl[i].gesture.moves < maxMoves
  /\ LET w == handlePointerMove(World(i, ctl[i]), p, ok, rDelay)
     IN Put(i, w) /\ emitted' = w.log
  /\ UNCHANGED <<charAction, script, seed>>
  /\ probe' = <<>>
  /\ UNCHANGED <<documentHidden, scriptElements, chat>>

\* The press ends.  Released over the model ("up") the renderer delivers
\* pointerup and then pointertap; released elsewhere ("outside") it delivers
\* pointerupoutside, and a cancelled pointer ("cancel") pointercancel.
PointerRelease(i, kind, okMotion, okExpression, rWhich, rDelay) ==
  /\ ctl[i].listeners
  /\ ctl[i].gesture.phase = "down"
  /\ LET w0 == handlePointerUp(World(i, ctl[i]))
         w1 == IF kind = "up"
                 THEN handlePointerTap(w0, okMotion, okExpression, rWhich, rDelay)
                 ELSE w0
         w2 == [w1 EXCEPT !.c.gesture.phase = "ended", !.c.gesture.end = kind]
     IN Put(i, w2) /\ emitted' = w2.log
  /\ UNCHANGED <<charAction, script, seed>>
  /\ probe' = <<>>
  /\ UNCHANGED <<documentHidden, scriptElements, chat>>

\* A pending timeout of controller i fires: its delay has elapsed.
AmbientFire(i, t, rPick, rWhich, rDelay, ok) ==
  /\ t \in ctl[i].timers
  /\ t.left = 0
  /\ LET w == ambientCallback(World(i, ctl[i]), t, rPick, rWhich, rDelay, ok)
     IN Put(i, w) /\ emitted' = w.log
  /\ UNCHANGED <<charAction, script, seed>>
  /\ probe' = <<>>
  /\ UNCHANGED <<documentHidden, scriptElements, chat>>

\* d milliseconds pass without any handler running.
TimePasses(d) ==
  /\ \E i \in Controllers : ctl[i].quiet > 0 \/ \E t \in ctl[i].timers : t.left > 0
  /\ ctl' = [i \in Controllers |->
               [ctl[i] EXCEPT !.timers = {[t EXCEPT !.left = Max(@ - d, 0)] : t \in @},
                              !.quiet = Max(@ - d, 0)]]
  /\ emitted' = <<>>
  /\ UNCHANGED <<charAction, script, seed>>
  /\ probe' = <<>>
  /\ UNCHANGED <<documentHidden, scriptElements, chat>>

\* visibilitychange: the page is hidden or shown again.
VisibilityChange ==
  /\ documentHidden' = ~documentHidden
  /\ emitted' = <<>>
  /\ probe' = <<>>
  /\ UNCHANGED <<ctl, charAction, script, seed, scriptElements, chat>>

\* The runtime finishes the playback of a motion.
MotionFinished(i, g) ==
  /\ ctl[i].model = "live"
  /\ g \in ctl[i].motions
  /\ ctl' = [ctl EXCEPT ![i].motions = @ \ {g}]
  /\ emitted' = <<>>
  /\ UNCHANGED <<charAction, script, seed>>
  /\ probe' = <<>>
  /\ UNCHANGED <<documentHidden, scriptElements, chat>>

\* The ticker of the surface calls tickerCallback for a rendered frame:
\* model.update(delta) and nothing else.  The end of a playback that the
\* update brings about is the step MotionFinished.
TickerCallback(i) ==
  /\ ctl[i].app = "live"
  /\ ctl[i].tickerAdded
  /\ ctl[i].renderTicks < MaxRenderTicks
  /\ ctl' = [ctl EXCEPT ![i].renderTicks = @ + 1]
  /\ emitted' = <<>>
  /\ UNCHANGED <<charAction, script, seed>>
  /\ probe' = <<>>
  /\ UNCHANGED <<documentHidden, scriptElements, chat>>

\* window.charAction?.(action), as RoutineDashboard calls it.
RECURSIVE BridgeLog(_, _, _)
BridgeLog(h, action, oks) ==
  IF h = NoHandler THEN <<>>
  ELSE IF h = SeedHandler THEN <<Call(SeedHandler, "seed", action, 0, TRUE)>>
  ELSE BridgeLog(ctl[h].previousHandler, action, oks)
         \o charActionBody(World(h, ctl[h]), action, oks[h]).log

BridgeCall(action, oks) ==
  /\ ctl' = [i \in Controllers |->
               IF i \in Reached(ctl, charAction)
               THEN charActionBody(World(i, ctl[i]), action, oks[i]).c
               ELSE ctl[i]]
  /\ emitted' = BridgeLog(charAction, action, oks)
  /\ UNCHANGED <<charAction, script, seed>>
  /\ probe' = <<>>
  /\ UNCHANGED <<documentHidden, scriptElements, chat>>

(***************************************************************************)
(* The idle prompts of ChatInterface.                                      *)
(***************************************************************************)
\* idleRangeMs of the persona configurations (acquaintance, friend, partner).
PersonaRanges == {<<60000, 95000>>, <<50000, 85000>>, <<40000, 70000>>}

\* Contents of the input box: empty, one space, a word.
ChatInputs == {"", " ", "hi"}

\* inputText.trim()
trim(text) == IF text = " " THEN "" ELSE text

\* computeIdleDelay; r is the value of Math.random() in thousandths.
computeIdleDelay(idleRangeMs, r) ==
  LET safeMin == Max(idleRangeMs[1], 30000)
      range == Max(idleRangeMs[2] - safeMin, 10000)
  IN safeMin + (r * range) \div RandomScale

\* minimumGap of maybeSendIdlePrompt.
minimumGap(idleRangeMs) == Max((idleRangeMs[1] * 8) \div 10, 30000)

Older(age, d) == Min(age + d, AgeCap)

\* window.clearTimeout(idleTimerRef.current)
clearIdleTimer(c) == [c EXCEPT !.timers = {t \in @ : t.id # c.idleTimerRef}]

\* The cleanup of the idle timer effect.
idleEffectCleanup(c) ==
  IF c.idleTimerRef # 0 THEN [clearIdleTimer(c) EXCEPT !.idleTimerRef = 0] ELSE c

FreshIdleTimerId(c) ==
  CHOOSE n \in 1..(Cardinality(c.timers) + 2) :
    n \notin {t.id : t \in c.timers} \cup {c.idleTimerRef}

\* The body of the idle timer effect: take the time of the last message into
\* the ref of its sender, clear the timer of the ref, arm a new one.
idleEffect(c, r) ==
  LET c1 == IF c.lastSender = "user"
              THEN [c EXCEPT !.lastUserAge = c.lastAge]
              ELSE [c EXCEPT !.lastCharacterAge = c.lastAge]
      c2 == idleEffectCleanup(c1)
      id == FreshIdleTimerId(c2)
  IN [c2 EXCEPT !.timers = @ \cup {[id |-> id, left |-> computeIdleDelay(c.idleRangeMs, r)]},
                !.idleTimerRef = id]

\* A render in which messages, inputText or isTyping changed: the effect is
\* cleaned up and run again with the new maybeSendIdlePrompt.
idleEffectRerun(c, r) == idleEffect(idleEffectCleanup(c), r)

\* A maybeSendIdlePrompt that does not look at the visibility of the document.
maybeSendIdlePrompt_IgnoresVisibility(c, hidden, composed) ==
  LET gap == minimumGap(c.idleRangeMs)
  IN IF c.isTyping \/ trim(c.inputText) # "" THEN c
     ELSE IF c.lastUserAge < gap THEN c
     ELSE IF c.lastCharacterAge < gap THEN c
     ELSE IF c.lastSender = "character" /\ c.lastAge < gap THEN c
     ELSE IF ~composed THEN c
     ELSE [c EXCEPT !.idleTimerRef = 0,
                    !.lastCharacterAge = 0,
                    !.lastSender = "character",
                    !.lastAge = 0,
                    !.sent = @ + 1,
                    !.sentWith = [hidden |-> hidden, isTyping |-> c.isTyping,
                                  inputText |-> c.inputText,
                                  lastUserAge |-> c.lastUserAge,
                                  lastCharacterAge |-> c.lastCharacterAge]]

\* maybeSendIdlePrompt up to setMessages; composed is whether
\* composeIdlePrompt produced a text.
maybeSendIdlePrompt(c, hidden, composed) ==
  LET gap == minimumGap(c.idleRangeMs)
  IN IF hidden THEN c
     ELSE IF c.isTyping \/ trim(c.inputText) # "" THEN c
     ELSE IF c.lastUserAge < gap THEN c
     ELSE IF c.lastCharacterAge < gap THEN c
     ELSE IF c.lastSender = "character" /\ c.lastAge < gap THEN c
     ELSE IF ~composed THEN c
     ELSE [c EXCEPT !.idleTimerRef = 0,
                    !.lastCharacterAge = 0,
                    !.lastSender = "character",
                    !.lastAge = 0,
                    !.sent = @ + 1,
                    !.sentWith = [hidden |-> hidden, isTyping |-> c.isTyping,
                                  inputText |-> c.inputText,
                                  lastUserAge |-> c.lastUserAge,
                                  lastCharacterAge |-> c.lastCharacterAge]]

ChatStep(c) ==
  /\ chat' = c
  /\ emitted' = <<>>
  /\ probe' = <<>>
  /\ UNCHANGED <<ctl, charAction, script, seed, documentHidden, scriptElements>>

\* ChatInterface mounts with the greeting or with the messages of the history
\* cookie, the last of which has the given sender and age.
ChatMount(range, sender, age, r) ==
  /\ chat.life = "new"
  /\ ChatStep(idleEffect([chat EXCEPT !.life = "mounted",
                                      !.idleRangeMs = range,
                                      !.lastSender = sender,
                                      !.lastAge = age], r))

\* onChange of the input box.
ChatInput(text, r) ==
  /\ chat.life = "mounted"
  /\ text # chat.inputText
  /\ ChatStep(idleEffectRerun([chat EXCEPT !.inputText = text], r))

\* handleSend up to its await: the user's message is appended, the input box
\* is emptied and the reply is awaited.
ChatSend(r) ==
  /\ chat.life = "mounted"
  /\ trim(chat.inputText) # ""
  /\ ~chat.isTyping
  /\ ChatStep(idleEffectRerun([chat EXCEPT !.inputText = "",
                                           !.isTyping = TRUE,
                                           !.lastSender = "user",
                                           !.lastAge = 0], r))

\* handleSend after its await: the reply or the fallback is appended and
\* isTyping is reset.
ChatReply(r) ==
  /\ chat.life = "mounted"
  /\ chat.isTyping
  /\ ChatStep(idleEffectRerun([chat EXCEPT !.isTyping = FALSE,
                                           !.lastSender = "character",
                                           !.lastAge = 0], r))

\* The idle timer fires: maybeSendIdlePrompt runs, and when it has appended
\* a message the effect runs again.
IdleFire(t, composed, r) ==
  /\ t \in chat.timers
  /\ t.left = 0
  /\ chat.sent < MaxIdlePrompts
  /\ LET c0 == [chat EXCEPT !.timers = @ \ {t}]
         c1 == maybeSendIdlePrompt(c0, documentHidden, composed)
     IN ChatStep(IF c1.sent # c0.sent THEN idleEffectRerun(c1, r) ELSE c1)

\* d milliseconds pass in which no timer of the chat is due.
ChatTimePasses(d) ==
  /\ chat.life = "mounted"
  /\ \A t \in chat.timers : t.left > 0
  /\ LET step == IF chat.timers = {} THEN d
                 ELSE Min(d, (CHOOSE t \in chat.timers :
                                 \A u \in chat.timers : t.left <= u.left).left)
     IN ChatStep([chat EXCEPT !.timers = {[t EXCEPT !.left = @ - step] : t \in @},
                              !.lastAge = Older(@, step),
                              !.lastUserAge = Older(@, step),
                              !.lastCharacterAge = Older(@, step)])

\* ChatInterface unmounts: the cleanups of its effects run.
ChatUnmount ==
  /\ chat.life = "mounted"
  /\ ChatStep([idleEffectCleanup(chat) EXCEPT !.life = "unmounted"])

\* The bridge effect of the floating SeedAvatar.
SeedMount ==
  /\ seed = "new"
  /\ seed' = "mounted"
  /\ charAction' = SeedHandler
  /\ emitted' = <<>>
  /\ UNCHANGED <<ctl, script>>
  /\ probe' = <<>>
  /\ UNCHANGED <<documentHidden, scriptElements, chat>>

SeedUnmount ==
  /\ seed = "mounted"
  /\ seed' = "unmounted"
  /\ charAction' = IF charAction = SeedHandler THEN NoHandler ELSE charAction
  /\ emitted' = <<>>
  /\ UNCHANGED <<ctl, script>>
  /\ probe' = <<>>
  /\ UNCHANGED <<documentHidden, scriptElements, chat>>

(***************************************************************************)
(* Specifications.  A scope names the controllers that are mounted, the    *)
(* controllers whose model receives pointer input, timer fires and         *)
(* playback ends, the pointer positions, the values of Math.random(), the  *)
(* outcomes of the runtime calls and the bridge actions requested.         *)
(***************************************************************************)
Lifecycle(S, i) ==
  \/ Mount(i)
  \/ CoreAwaited(i)
  \/ \E ok \in BOOLEAN : ImportsAwaited(i, ok)
  \/ \E ok \in BOOLEAN : \E okIdle \in S.oks : \E r \in S.delayDraws :
       ModelAwaited(i, ok, okIdle, r)
  \/ Unmount(i)

Pointer(S, i) ==
  \/ \E p \in S.points : PointerDown(i, p)
  \/ \E p \in S.points : \E ok \in S.oks : \E r \in S.delayDraws : PointerMove(i, p, ok, r, S.maxMoves)
  \/ \E kind \in {"up", "outside", "cancel"} : \E okM, okE \in S.oks :
       \E rW \in S.draws : \E rD \in S.delayDraws :
         PointerRelease(i, kind, okM, okE, rW, rD)

Runtime(S, i) ==
  \/ \E t \in ctl[i].timers : \E rP, rW \in S.draws : \E rD \in S.delayDraws :
       \E ok \in S.oks : AmbientFire(i, t, rP, rW, rD, ok)
  \/ \E g \in ctl[i].motions : MotionFinished(i, g)

Bridge(S) ==
  \E a \in S.actions : \E oks \in [Controllers -> S.oks] : BridgeCall(a, oks)

NextIn(S) ==
  \/ ScriptLoaded
  \/ ScriptFailed
  \/ \E d \in S.ticks : TimePasses(d)
  \/ \E i \in S.controllers : Lifecycle(S, i)
  \/ \E i \in S.active : Runtime(S, i) \/ Pointer(S, i)
  \/ Bridge(S)

\* All controllers and the SeedAvatar; pointer input, timer fires and playback
\* ends on the first controller.
MainScope ==
  [controllers |-> Controllers, active |-> {1}, points |-> CoarsePoints,
   draws |-> RandomDraws, delayDraws |-> {0}, oks |-> {TRUE},
   actions |-> {"morning", "miss"}, maxMoves |-> 1,
   ticks |-> {MAX_AMBIENT_DELAY}]

Next == NextIn(MainScope) \/ SeedMount \/ SeedUnmount

Spec == Init /\ [][Next]_vars

\* One controller with the full pointer input and a runtime that may throw.
GestureScope ==
  [controllers |-> {1}, active |-> {1}, points |-> FinePoints,
   draws |-> RandomDraws, delayDraws |-> {0}, oks |-> BOOLEAN,
   actions |-> {"miss"}, maxMoves |-> MaxMoves, ticks |-> {MAX_AMBIENT_DELAY}]

NextGesture == NextIn(GestureScope)

SpecGesture == Init /\ [][NextGesture]_vars

\* A caller inside the setup closure invokes triggerMotion directly.
TriggerMotionCall(i, group, index, force, ok) ==
  /\ ctl[i].installed
  /\ ctl[i].life = "mounted"
  /\ Len(probe) < MaxProbes
  /\ LET w == triggerMotion(World(i, ctl[i]), group, index, force, ok)
     IN /\ Put(i, w)
        /\ emitted' = w.log
        /\ probe' = Append(probe, [group |-> group, force |-> force, ok |-> ok,
                                    playing |-> isMotionPlaying(ctl[i]),
                                    ret |-> w.ret, log |-> w.log])
  /\ UNCHANGED <<charAction, script, seed, documentHidden, scriptElements, chat>>

\* A direct call of triggerExpression on a ready controller, recorded in probe.
TriggerExpressionCall(i, id, ok) ==
  /\ ctl[i].installed
  /\ ctl[i].life = "mounted"
  /\ Len(probe) < MaxProbes
  /\ LET w == triggerExpression(World(i, ctl[i]), id, ok)
     IN /\ Put(i, w)
        /\ emitted' = w.log
        /\ probe' = Append(probe, [arg |-> id, ok |-> ok,
                                    playing |-> isMotionPlaying(ctl[i]),
                                    motions |-> w.c.motions = ctl[i].motions,
                                    thrown |-> w.thrown, log |-> w.log])
  /\ UNCHANGED <<charAction, script, seed, documentHidden, scriptElements, chat>>

DirectorScope ==
  [controllers |-> {1}, active |-> {1}, points |-> CoarsePoints,
   draws |-> RandomDraws, delayDraws |-> {0}, oks |-> BOOLEAN,
   actions |-> {"morning", "miss"}, maxMoves |-> 1,
   ticks |-> {MAX_AMBIENT_DELAY}]

NextDirector ==
  \/ NextIn(DirectorScope)
  \/ \E group \in {EXTRA_MOTION_GROUP, idleMotionGroup} : \E force, ok \in BOOLEAN :
       TriggerMotionCall(1, group, 0, force, ok)

SpecDirector == Init /\ [][NextDirector]_vars

\* Two controllers whose handlers chain, every bridge action, and a runtime
\* that may throw.
BridgeScope ==
  [controllers |-> Controllers, active |-> {}, points |-> CoarsePoints,
   draws |-> RandomDraws, delayDraws |-> {0}, oks |-> BOOLEAN,
   actions |-> Actions, maxMoves |-> 1, ticks |-> {MAX_AMBIENT_DELAY}]

NextBridge ==
  \/ ScriptLoaded
  \/ ScriptFailed
  \/ \E i \in Controllers : Lifecycle(BridgeScope, i)
  \/ Bridge(BridgeScope)

SpecBridge == Init /\ [][NextBridge]_vars

\* Time steps of the chat.
ChatTicks == {10000, 30000}

\* ChatInterface with its input box, its replies and its idle timer.
NextChat ==
  \/ \E range \in PersonaRanges : \E sender \in {"user", "character"} :
       \E age \in {0, AgeCap} : \E r \in RandomDraws : ChatMount(range, sender, age, r)
  \/ \E text \in ChatInputs : \E r \in RandomDraws : ChatInput(text, r)
  \/ \E r \in RandomDraws : ChatSend(r) \/ ChatReply(r)
  \/ \E t \in chat.timers : \E composed \in BOOLEAN : \E r \in RandomDraws :
       IdleFire(t, composed, r)
  \/ \E d \in ChatTicks : ChatTimePasses(d)
  \/ ChatUnmount
  \/ VisibilityChange

SpecChat == Init /\ [][NextChat]_vars

\* One controller whose triggerExpression is called directly.
NextExpression ==
  \/ NextIn(DirectorScope)
  \/ \E id \in {"exp_01", "exp_05"} : \E ok \in BOOLEAN : TriggerExpressionCall(1, id, ok)

SpecExpression == Init /\ [][NextExpression]_vars

\* Two controllers mounted with container sizes of their own, showing the
\* same model.
InitLayout ==
  /\ \E w1, w2 \in LayoutWidths : \E h1, h2 \in LayoutHeights : \E n \in NativeSizes :
       ctl = [i \in Controllers |->
                [InitController EXCEPT !.width = IF i = 1 THEN w1 ELSE w2,
                                       !.height = IF i = 1 THEN h1 ELSE h2,
                                       !.nativeWidth = n[1],
                                       !.nativeHeight = n[2]]]
  /\ charAction = NoHandler
  /\ script = "absent"
  /\ seed = "new"
  /\ emitted = <<>>
  /\ probe = <<>>
  /\ documentHidden = FALSE
  /\ scriptElements = 0
  /\ chat = InitChat

NextLayout ==
  \/ ScriptLoaded
  \/ ScriptFailed
  \/ \E i \in Controllers : Lifecycle(MainScope, i)

SpecLayout == InitLayout /\ [][NextLayout]_vars

\* Container sizes of which at least one side is zero or negative, as a
\* container has while it is being mounted or collapsed.
DegenerateSizes ==
  {size \in {-320, 0, 320} \X {-360, 0, 360} : size[1] <= 0 \/ size[2] <= 0}

InitDegenerate ==
  /\ \E s1, s2 \in DegenerateSizes : \E n \in NativeSizes :
       ctl = [i \in Controllers |->
                [InitController EXCEPT !.width = IF i = 1 THEN s1[1] ELSE s2[1],
                                       !.height = IF i = 1 THEN s1[2] ELSE s2[2],
                                       !.nativeWidth = n[1],
                                       !.nativeHeight = n[2]]]
  /\ charAction = NoHandler
  /\ script = "absent"
  /\ seed = "new"
  /\ emitted = <<>>
  /\ probe = <<>>
  /\ documentHidden = FALSE
  /\ scriptElements = 0
  /\ chat = InitChat

SpecDegenerate == InitDegenerate /\ [][NextLayout]_vars

\* The indices of the motions in the idle group of the model file.
IdleVariants == {0, 1}

\* One controller with its render loop.
TickerScope ==
  [controllers |-> {1}, active |-> {1}, points |-> CoarsePoints,
   draws |-> RandomDraws, delayDraws |-> {0}, oks |-> {TRUE},
   actions |-> {"morning", "miss"}, maxMoves |-> 1,
   ticks |-> {MAX_AMBIENT_DELAY}]

NextTicker == NextIn(TickerScope) \/ \E i \in TickerScope.active : TickerCallback(i)

SpecTicker == Init /\ [][NextTicker]_vars

\* Container sizes that CharacterView passes before and after a resize.
ResizeSizes == {<<320, 360>>, <<640, 720>>}

\* Props changes of controller i.
Resize(i) ==
  \/ \E size \in ResizeSizes : Rerun(i, size[1], size[2])
  \/ OrphanSettles(i)

\* Two components that mount, load, have their props changed and unmount.
NextLoader ==
  \/ ScriptLoaded
  \/ ScriptFailed
  \/ \E i \in Controllers : Lifecycle(MainScope, i)
  \/ \E i \in Controllers : Resize(i)

SpecLoader == Init /\ [][NextLoader]_vars

\* The browser fires the load or the error event of a script element that is
\* loading, and the microtask of a settled promise runs: a setup whose await
\* has settled resumes.  Mounts, unmounts and props changes are up to the
\* user and are not forced.
FairLoader ==
  /\ WF_vars(ScriptLoaded \/ ScriptFailed)
  /\ \A i \in Controllers : WF_vars(CoreAwaited(i))

SpecLoaderFair == SpecLoader /\ FairLoader

\* One controller with time passing in small steps, every bridge action, a
\* runtime that may throw, jittered delays and a page that may be hidden.
SchedulerTicks == {500, 2000}

SchedulerScope ==
  [controllers |-> {1}, active |-> {1}, points |-> CoarsePoints,
   draws |-> RandomDraws, delayDraws |-> RandomDraws, oks |-> BOOLEAN,
   actions |-> Actions, maxMoves |-> 1, ticks |-> SchedulerTicks]

NextScheduler == NextIn(SchedulerScope) \/ VisibilityChange

SpecScheduler == Init /\ [][NextScheduler]_vars


(***************************************************************************)
(* Properties.                                                             *)
(***************************************************************************)
\* Controller i is a live bridge provider: mounted, with its handler installed.
LiveController(c, i) == c[i].life = "mounted" /\ c[i].installed

\* The providers whose handler a bridge call ought to reach.
LiveProviders(c, sd) ==
  {i \in Controllers : LiveController(c, i)}
    \cup (IF sd = "mounted" THEN {SeedHandler} ELSE {})

\* Controller i assigns window.charAction in this step.
Installs(i) == ~ctl[i].installed /\ ctl'[i].installed

\* Controller i is unmounted in this step.
Unmounts(i) == ctl[i].life = "mounted" /\ ctl'[i].life = "unmounted"

\* A continuation of setup of controller i runs in this step.
SetupStep(i) == ctl[i].pc # "idle" /\ ctl[i].pc # ctl'[i].pc

\* C1: in every reachable state at most one ambient timer of a controller is
\* pending, and it is the one ambientTimeoutRef holds: scheduleAmbientMotion
\* cancels the timer armed before, whatever interleaving of timer fires, taps,
\* pet drags and bridge actions led to the state.
C1_AtMostOneAmbientTimer ==
  \A i \in Controllers :
    /\ Cardinality(ctl[i].timers) <= 1
    /\ \A t \in ctl[i].timers : t.id = ctl[i].ambientTimeoutRef

\* A tap on a ready controller re-armed the timer while the timer armed by
\* setup was pending.
C1_Witness ==
  \E i \in Controllers :
    /\ ctl[i].life = "mounted"
    /\ ctl[i].gesture.taps = 1
    /\ \E t \in ctl[i].timers : t.delay = INTERACTION_COOLDOWN

\* C2: once the teardown of a controller has run, no step makes a motion,
\* stopAllMotions or expression call on the model in the name of that
\* controller, whatever timer fires, pointer events or bridge calls arrive.
C2_NoDirectorCallAfterTeardown ==
  \A i \in Controllers :
    ctl[i].life = "unmounted" => \A k \in DOMAIN emitted : emitted[k].c # i

\* The bridge handler of an unmounted controller has run after the teardown
\* (it armed a timer, which the teardown had cleared).
C2_Witness ==
  \E i \in Controllers : ctl[i].life = "unmounted" /\ ctl[i].timers # {}

\* C3: a controller that installs its handler chains to the handler that is
\* in the slot at the moment of the installation, so that a bridge call
\* still reaches the providers installed before it.
C3_InstallChainsToCurrentHandler ==
  [][\A i \in Controllers : Installs(i) => ctl[i].previousHandler = charAction]_vars

\* C4: when a controller unmounts, every provider that a bridge call reached
\* before and that is still live is reached afterwards too.
C4_UnmountKeepsLiveProviders ==
  [][\A i \in Controllers :
       Unmounts(i) =>
         (Reached(ctl, charAction) \cap LiveProviders(ctl', seed'))
           \subseteq Reached(ctl', charAction')]_vars

\* C5: the teardown performs its steps in the order ambient timer, pointer
\* listeners, render-loop callback, model, surface, bridge slot.
TeardownOrder == <<"timer", "listeners", "ticker", "model", "surface", "bridge">>

Rank(step) == CHOOSE k \in DOMAIN TeardownOrder : TeardownOrder[k] = step

C5_TeardownInOrder ==
  \A i \in Controllers :
    \A a, b \in DOMAIN ctl[i].teardown :
      a < b => Rank(ctl[i].teardown[a]) < Rank(ctl[i].teardown[b])

\* C6: a continuation of setup that runs after the controller was unmounted
\* creates no surface, attaches no pointer listener, arms no ambient timer
\* and installs no bridge handler.
C6_CancelledSetupTouchesNothing ==
  [][\A i \in Controllers :
       (ctl[i].life = "unmounted" /\ SetupStep(i)) =>
         /\ ctl'[i].app # "live"
         /\ ~ctl'[i].canvasAttached
         /\ ~ctl'[i].listeners
         /\ ctl'[i].timers = ctl[i].timers
         /\ ~ctl'[i].installed
         /\ ~ctl'[i].modelRef
         /\ charAction' = charAction]_vars

\* The controller was unmounted during the model load and the load has run
\* to completion.
C6_Witness ==
  \E i \in Controllers :
    /\ ctl[i].life = "unmounted"
    /\ ctl[i].pc = "done"
    /\ ctl[i].model = "destroyed"
    /\ ~ctl[i].installed

\* C7: after the unmount of a controller the surface it created, if any, is
\* destroyed and its canvas is detached from the container.
C7_SurfaceDestroyedOnUnmount ==
  \A i \in Controllers :
    ctl[i].life = "unmounted" => ctl[i].app # "live" /\ ~ctl[i].canvasAttached

\* One controller was unmounted while its model was loading, another after
\* its model load had failed; both had created a surface.
C7_Witness ==
  \E i, j \in Controllers :
    /\ ctl[i].life = "unmounted" /\ ctl[i].pc = "model" /\ ctl[i].app = "destroyed"
    /\ ctl[j].life = "unmounted" /\ ctl[j].status = "error" /\ ctl[j].app = "destroyed"

\* C8: a press whose cumulative drag distance reaches the threshold emits
\* exactly one pet gesture and no tap gesture.
C8_DragIsOnePetNoTap ==
  \A i \in Controllers :
    (ctl[i].gesture.phase = "ended" /\ ctl[i].gesture.cum >= PET_DISTANCE_THRESHOLD) =>
      ctl[i].gesture.pets = 1 /\ ctl[i].gesture.taps = 0

Unforced(k) == probe[k].group # idleMotionGroup /\ ~probe[k].force

C10_TrueThenFalse ==
  (Len(probe) = 2 /\ Unforced(1) /\ Unforced(2) /\ probe[1].ok /\ probe[2].ok) =>
    /\ probe[1].ret = TRUE
    /\ probe[2].ret = FALSE
    /\ probe[2].log = <<>>

\* What the Director does guarantee: an unforced non-idle call made while the
\* runtime reports nothing playing, and accepted by the runtime, returns true;
\* an unforced non-idle call that follows one that returned true returns
\* false and calls nothing.
SuppressedWhilePlaying ==
  /\ (Len(probe) >= 1 /\ Unforced(1) /\ ~probe[1].playing /\ probe[1].ok) =>
       probe[1].ret = TRUE
  /\ (Len(probe) >= 2 /\ Unforced(1) /\ Unforced(2) /\ probe[1].ret) =>
       probe[2].ret = FALSE /\ probe[2].log = <<>>

\* The timer callback of controller i runs in this step.
Fires(i, t) ==
  \E rP, rW, rD \in RandomDraws : \E ok \in BOOLEAN : AmbientFire(i, t, rP, rW, rD, ok)

\* The calls made on the model of controller i by the last step.
EmittedBy(log, i) == {k \in DOMAIN log : log[k].c = i}

\* C11: when the ambient timer fires while the runtime reports a motion as
\* playing, the callback makes no motion, stopAllMotions or expression call;
\* it only arms a new timer.
C11_FireWhilePlayingOnlyRearms ==
  [][\A i \in Controllers : \A t \in ctl[i].timers :
       (Fires(i, t) /\ ctl[i].modelRef /\ isMotionPlaying(ctl[i])) =>
         /\ EmittedBy(emitted', i) = {}
         /\ ctl'[i].motions = ctl[i].motions
         /\ Cardinality(ctl'[i].timers) = 1
         /\ \A n \in ctl'[i].timers : n.left = n.delay /\ n.id = ctl'[i].ambientTimeoutRef]_vars

\* The timer armed by setup (7000 ms) fired while the idle motion was
\* playing: the timer now pending was armed by the back-off.
C11_Witness ==
  \E i \in Controllers :
    /\ ctl[i].life = "mounted"
    /\ isMotionPlaying(ctl[i])
    /\ emitted = <<>>
    /\ \E t \in ctl[i].timers : t.delay = MIN_AMBIENT_DELAY \div 2 /\ t.left = t.delay

\* The timer callback of controller i backs off in this step: it runs while
\* the runtime reports a motion as playing.
BacksOff(i, t) == Fires(i, t) /\ ctl[i].modelRef /\ isMotionPlaying(ctl[i])

\* C12: when the ambient timer fires while a motion is playing, the delay
\* of the newly armed timer is greater than zero and strictly shorter than
\* the delay of the timer that fired.
C12_BackoffStrictlyShorter ==
  [][\A i \in Controllers : \A t \in ctl[i].timers :
       BacksOff(i, t) => \A n \in ctl'[i].timers : n.delay > 0 /\ n.delay < t.delay]_vars

\* C12, as the code has it: the newly armed delay is half the delay that
\* fired but never less than 2000 ms, so it is greater than zero, never
\* longer than the delay that fired, and strictly shorter whenever the delay
\* that fired exceeds 2000 ms.
C12_BackoffShortensDownToFloor ==
  [][\A i \in Controllers : \A t \in ctl[i].timers :
       BacksOff(i, t) =>
         \A n \in ctl'[i].timers :
           /\ n.delay = Max(t.delay \div 2, OVERRIDE_FLOOR)
           /\ n.delay > 0
           /\ n.delay <= t.delay
           /\ (t.delay > OVERRIDE_FLOOR => n.delay < t.delay)]_vars

\* Repeated back-offs have reached the floor: a timer of 2000 ms, which only
\* a back-off arms, is pending while a motion is playing.
C12_Witness ==
  \E i \in Controllers :
    /\ ctl[i].life = "mounted"
    /\ isMotionPlaying(ctl[i])
    /\ \E t \in ctl[i].timers : t.delay = OVERRIDE_FLOOR /\ t.left = 0

\* C13: when the ambient timer fires while the document is hidden, the
\* callback makes no motion or expression call and re-arms the timer at the
\* shortened (back-off) delay.
C13_FireWhileHiddenOnlyRearms ==
  [][\A i \in Controllers : \A t \in ctl[i].timers :
       (Fires(i, t) /\ ctl[i].modelRef /\ documentHidden) =>
         /\ EmittedBy(emitted', i) = {}
         /\ \A n \in ctl'[i].timers : n.delay = Max(t.delay \div 2, OVERRIDE_FLOOR)]_vars

\* Controller i has completed its setup and has not been torn down.
Ready(c) == c.life = "mounted" /\ c.status = "ready"

\* C14: from the completion of setup until teardown exactly one ambient
\* timer is pending, and every timer fire, whether it acts or backs off and
\* whether or not the runtime throws, leaves a newly armed timer behind.
C14_PerpetualLoopWhileMounted ==
  /\ [](\A i \in Controllers :
          Ready(ctl[i]) =>
            /\ Cardinality(ctl[i].timers) = 1
            /\ \A t \in ctl[i].timers : t.id = ctl[i].ambientTimeoutRef)
  /\ [][\A i \in Controllers : \A t \in ctl[i].timers :
          (Fires(i, t) /\ Ready(ctl[i])) =>
            /\ Cardinality(ctl'[i].timers) = 1
            /\ \A n \in ctl'[i].timers : n.left = n.delay /\ n.left > 0]_vars

\* The timer fired with nothing playing, the ambient motion it requested
\* (index 3, which no gesture uses) was rejected by the runtime, and a new
\* timer is pending.
C14_Witness ==
  \E i \in Controllers :
    /\ Ready(ctl[i])
    /\ \E k \in DOMAIN emitted :
         /\ emitted[k].c = i /\ emitted[k].op = "motion"
         /\ emitted[k].index = 3 /\ ~emitted[k].ok
    /\ \E t \in ctl[i].timers : t.left = t.delay /\ t.delay >= MIN_AMBIENT_DELAY

\* The steps that are real interactions with controller i.
TapStep(i) == ctl'[i].gesture.taps = ctl[i].gesture.taps + 1

PetStep(i) == ctl'[i].gesture.pets = ctl[i].gesture.pets + 1

BridgeStep(i, a) ==
  /\ Ready(ctl[i])
  /\ i \in Reached(ctl, charAction)
  /\ \E oks \in [Controllers -> BOOLEAN] : BridgeCall(a, oks)

\* Controller i has exactly one pending timer, just armed, with a delay
\* from lo up to but not including hi.
Rearmed(c, lo, hi) ==
  /\ Cardinality(c.timers) = 1
  /\ \A n \in c.timers :
       /\ n.id = c.ambientTimeoutRef
       /\ n.left = n.delay
       /\ lo <= n.delay /\ n.delay < hi

\* C15: every tap, every pet drag and every bridge action cancels the
\* pending ambient timer and arms a new one whose delay is the interaction
\* cooldown of 4500 ms.
C15_InteractionRearmsWithCooldown ==
  [][\A i \in Controllers :
       (TapStep(i) \/ PetStep(i) \/ \E a \in Actions : BridgeStep(i, a)) =>
         Rearmed(ctl'[i], INTERACTION_COOLDOWN, INTERACTION_COOLDOWN + 1)]_vars

\* C15, as the code has it: a tap re-arms with 4500 ms plus up to 1200 ms,
\* a pet drag whose motion the runtime accepted with 4500 ms plus up to
\* 1600 ms, a handled bridge action with 4500 ms; a pet drag or a bridge
\* action whose motion call throws leaves the pending timer as it is.
C15_InteractionRearmsAtLeastCooldown ==
  [][\A i \in Controllers :
       /\ TapStep(i) =>
            Rearmed(ctl'[i], INTERACTION_COOLDOWN, INTERACTION_COOLDOWN + TAP_COOLDOWN_JITTER)
       /\ PetStep(i) =>
            IF ctl'[i].pointerState.hasDragged
            THEN Rearmed(ctl'[i], INTERACTION_COOLDOWN, INTERACTION_COOLDOWN + PET_COOLDOWN_JITTER)
            ELSE ctl'[i].timers = ctl[i].timers
       /\ \A a \in Actions :
            BridgeStep(i, a) =>
              IF \E k \in EmittedBy(emitted', i) : emitted'[k].op = "motion" /\ ~emitted'[k].ok
              THEN ctl'[i].timers = ctl[i].timers
              ELSE Rearmed(ctl'[i], INTERACTION_COOLDOWN, INTERACTION_COOLDOWN + 1)]_vars

\* A tap re-armed the timer with the cooldown plus a jitter of 600 ms.
C15_Witness ==
  \E i \in Controllers :
    /\ Ready(ctl[i])
    /\ ctl[i].gesture.taps = 1
    /\ \E t \in ctl[i].timers :
         t.delay = INTERACTION_COOLDOWN + TAP_COOLDOWN_JITTER \div 2 /\ t.left = t.delay

\* C16: no motion or expression is emitted by the ambient timer of a
\* controller within 4500 ms (INTERACTION_COOLDOWN) after a tap, a
\* recognized pet or a handled bridge action on that controller, whatever
\* timer was pending at the time of the interaction.
C16_NoAmbientDuringCooldown ==
  [][\A i \in Controllers : \A t \in ctl[i].timers :
       (Fires(i, t) /\ EmittedBy(emitted', i) # {}) => ctl[i].quiet = 0]_vars

\* After a tap and the end of the cooldown the ambient timer has fired and
\* requested an ambient motion (index 3, which no gesture uses).
C16_Witness ==
  \E i \in Controllers :
    /\ Ready(ctl[i])
    /\ ctl[i].gesture.taps = 1
    /\ ctl[i].quiet = 0
    /\ \E k \in DOMAIN emitted :
         emitted[k].c = i /\ emitted[k].op = "motion" /\ emitted[k].index = 3

\* C17: a bridge call with 'miss' that reaches a ready controller makes
\* exactly one call on its model, expression('exp_05'), starts and stops no
\* motion, and re-arms the ambient timer with 4500 ms.
C17_MissIsOneExpression ==
  [][\A i \in Controllers :
       BridgeStep(i, "miss") =>
         /\ Cardinality(EmittedBy(emitted', i)) = 1
         /\ \A k \in EmittedBy(emitted', i) :
              emitted'[k].op = "expression" /\ emitted'[k].arg = "exp_05"
         /\ ctl'[i].motions = ctl[i].motions
         /\ Rearmed(ctl'[i], INTERACTION_COOLDOWN, INTERACTION_COOLDOWN + 1)]_vars

\* 'miss' was sent to a ready controller that plays nothing but its idle
\* motion, while the timer armed by setup was pending.
C17_Witness ==
  \E i \in Controllers :
    /\ Ready(ctl[i])
    /\ ctl[i].motions \subseteq {idleMotionGroup}
    /\ emitted = <<Call(i, "expression", "exp_05", 0, TRUE)>>
    /\ ctl[i].quiet = INTERACTION_COOLDOWN
    /\ \E t \in ctl[i].timers : t.delay = INTERACTION_COOLDOWN /\ t.left = t.delay

\* C18: the scale that setup gives to the model lies within the scale bounds
\* of the layout profile selected for the container size, whatever the
\* container size and the native size of the model.
C18_ScaleWithinProfileBounds ==
  \A i \in Controllers :
    ctl[i].status = "ready" =>
      LET layoutProfile == getLayoutProfile(ctl[i].width, ctl[i].height)
      IN /\ ctl[i].layout.scale >= layoutProfile.minScale * 10000
         /\ ctl[i].layout.scale <= layoutProfile.maxScale * 10000

\* A model scaled strictly between the bounds of the wide profile in a
\* container of 1280 x 720.
C18_Witness ==
  \E i \in Controllers :
    /\ ctl[i].status = "ready"
    /\ ctl[i].width = 1280 /\ ctl[i].height = 720
    /\ ctl[i].layout.scale > getLayoutProfile(1280, 720).minScale * 10000
    /\ ctl[i].layout.scale < getLayoutProfile(1280, 720).maxScale * 10000

\* C19: the vertical position that setup gives to the model lies between
\* minY and the container height less the vertical margin of the selected
\* profile, whatever the container size and the native size of the model.
C19_PosYWithinMargins ==
  \A i \in Controllers :
    ctl[i].status = "ready" =>
      LET layoutProfile == getLayoutProfile(ctl[i].width, ctl[i].height)
      IN /\ ctl[i].layout.y >= minY(ctl[i].height, ctl[i].nativeHeight,
                                    ctl[i].layout.scale, layoutProfile)
         /\ ctl[i].layout.y <= ctl[i].height * 1000
                                 - verticalMargin(ctl[i].height, layoutProfile)

\* C20: for one native model size and one container height, a wider
\* container never gets a smaller scale.
C20_ScaleMonotonicInWidth ==
  \A i, j \in Controllers :
    (/\ ctl[i].status = "ready" /\ ctl[j].status = "ready"
     /\ ctl[i].height = ctl[j].height
     /\ ctl[i].width <= ctl[j].width) =>
      ctl[i].layout.scale <= ctl[j].layout.scale

\* C21: however many mounts and effect runs call ensureCubismCoreLoaded with
\* the same script path, one after another or while an earlier load is in
\* flight, the document never holds more than one script element with that
\* src.
C21_AtMostOneScriptElement == scriptElements <= 1

\* Both components are mounted, one of them has had its effect re-run, so
\* ensureCubismCoreLoaded has been called three times, and the script
\* element is in the document.
C21_Witness ==
  /\ scriptElements = 1
  /\ \A i \in Controllers : ctl[i].life = "mounted"
  /\ \E i \in Controllers : ctl[i].reruns = 1

\* C22: when the runtime script has failed to load, every setup that waits
\* for it and is not cancelled eventually ends in status 'error', also when
\* the script element was inserted by an earlier mount and its error event
\* had fired before this setup started; no setup waits forever.
C22_FailedScriptEndsInError ==
  \A i \in Controllers :
    (ctl[i].life = "mounted" /\ ~ctl[i].cancelled /\ ctl[i].pc = "core" /\ script = "failed")
      ~> (ctl[i].status = "error" \/ ctl[i].cancelled)

\* C23: the status of a mounted component tracks the load of its current
\* effect run: it is 'loading' while that load is being resolved, 'error'
\* only after that load has failed, and 'ready' only while the model of that
\* load is in place; this also holds after the effect has been re-run.
C23_StatusTracksCurrentLoad ==
  \A i \in Controllers :
    ctl[i].life = "mounted" =>
      /\ ctl[i].pc \in {"core", "import", "model"} => ctl[i].status = "loading"
      /\ ctl[i].status = "ready" => ctl[i].pc = "done" /\ ctl[i].modelRef
      /\ ctl[i].status = "error" => ctl[i].pc = "done" /\ ~ctl[i].modelRef

\* A step in which the container size of the mounted component i changes.
Resized(i) ==
  /\ ctl[i].life = "mounted"
  /\ ctl'[i].life = "mounted"
  /\ <<ctl'[i].width, ctl'[i].height>> # <<ctl[i].width, ctl[i].height>>

\* C24: a change of the container size of a ready component recomputes the
\* scale and position of the model and remounts nothing: the surface, the
\* model, the bridge handler, the pointer listeners and the pending ambient
\* timer are the same after the change as before it.
C24_ResizeKeepsEverythingInPlace ==
  [][\A i \in Controllers :
       (Ready(ctl[i]) /\ Resized(i)) =>
         /\ ctl'[i].layout = layoutModel(ctl'[i].width, ctl'[i].height,
                                        ctl'[i].nativeWidth, ctl'[i].nativeHeight)
         /\ ctl'[i].app = ctl[i].app
         /\ ctl'[i].appDestroys = ctl[i].appDestroys
         /\ ctl'[i].model = ctl[i].model
         /\ ctl'[i].modelRef = ctl[i].modelRef
         /\ charAction' = charAction
         /\ ctl'[i].listeners = ctl[i].listeners
         /\ ctl'[i].ambientTimeoutRef = ctl[i].ambientTimeoutRef
         /\ ctl'[i].timers = ctl[i].timers]_vars

\* A runtime call of controller i in the log threw.
Threw(log, i, op) ==
  \E k \in DOMAIN log : log[k].c = i /\ log[k].op = op /\ ~log[k].ok

NoneMounted == \A i \in Controllers : ctl[i].life # "mounted"

\* C26: a bridge action invoked while no controller is mounted, before any
\* has mounted or after all have unmounted, is a no-op: no motion or
\* expression call is made on a model and no ambient timer is armed or
\* cancelled.
C26_BridgeWithoutControllerIsNoOp ==
  [][(/\ NoneMounted
      /\ \E a \in Actions : \E oks \in [Controllers -> BOOLEAN] : BridgeCall(a, oks))
       => /\ \A k \in DOMAIN emitted' : emitted'[k].c \notin Controllers
          /\ \A i \in Controllers : ctl'[i].timers = ctl[i].timers]_vars

\* C27: the idle-variant rotation advances through the idle variants of the
\* model in a fixed order on a budget of render ticks: once the ticker
\* callback of a ready component has received enough ticks, every idle
\* variant has been played.
C27_IdleRotationPlaysEveryVariant ==
  \A i \in Controllers :
    (Ready(ctl[i]) /\ ctl[i].renderTicks >= MaxRenderTicks) =>
      ctl[i].idlePlayed = IdleVariants

\* C28: whenever both the surface and the model of a controller have been
\* disposed, on the normal unmount and on the path of a load that was
\* cancelled, the surface was destroyed before the model.
C28_SurfaceDestroyedBeforeModel ==
  \A i \in Controllers :
    LET d == ctl[i].disposed
    IN \A a \in DOMAIN d :
         d[a] = "model" => \E b \in DOMAIN d : b < a /\ d[b] = "surface"

\* C29: between a pointerdown and the end of the press the pet motion is
\* requested at most once, however many pointermove events exceed the
\* threshold, also when the first request fails.
C29_AtMostOnePetRequestPerPress ==
  \A i \in Controllers : ctl[i].gesture.pets <= 1

\* C30: every ambient timer that scheduleAmbientMotion arms has a delay of
\* at least 2000 ms when it was armed with a delay override, and a delay
\* from 7000 ms to 13000 ms when it was armed without one.
C30_ArmedDelayWithinBounds ==
  \A i \in Controllers :
    \A t \in ctl[i].timers :
      /\ t.override => t.delay >= OVERRIDE_FLOOR
      /\ ~t.override => MIN_AMBIENT_DELAY <= t.delay /\ t.delay <= MAX_AMBIENT_DELAY

\* A timer just armed with an override below the floor (half of 3500 ms)
\* waits for 2000 ms.
C30_Witness ==
  \E i \in Controllers :
    \E t \in ctl[i].timers :
      /\ t.override
      /\ t.delay = OVERRIDE_FLOOR
      /\ t.left = t.delay

\* The runtime calls of a triggerMotion call on the idle group, and of one on
\* another group that is not suppressed.
IdleCalls(p) == <<Call(1, "motion", p.group, 0, p.ok)>>

StopThenStart(p) ==
  <<Call(1, "stopAllMotions", "", 0, TRUE), Call(1, "motion", p.group, 0, p.ok)>>

NotSuppressed(p) == p.group # idleMotionGroup /\ (p.force \/ ~p.playing)

C32_ExpressionAlwaysForwardedNeverThrows ==
  \A k \in DOMAIN probe :
    /\ probe[k].log = <<Call(1, "expression", probe[k].arg, 0, probe[k].ok)>>
    /\ probe[k].motions
    /\ ~probe[k].thrown

\* Two expressions requested back to back while a motion was playing: the
\* model call of the first threw, the second was still forwarded.
C32_Witness ==
  /\ Len(probe) = 2
  /\ probe[1].playing /\ ~probe[1].ok
  /\ probe[2].playing /\ probe[2].ok /\ probe[2].log # <<>>

\* The bridge is called with action a in this step.
BridgeCalled(a) == \E oks \in [Controllers -> BOOLEAN] : BridgeCall(a, oks)

\* What the handler of controller i requested for action a in a log: the
\* calls on its model, and whether the dispatch counts as handled.
Requested(log, i, a) ==
  LET mine == EmittedBy(log, i)
  IN CASE a \in {"morning", "night"} ->
            [calls |-> IF ctl[i].modelRef
                         THEN /\ Cardinality(mine) = 1
                              /\ \A k \in mine : /\ log[k].op = "motion"
                                                  /\ log[k].arg = idleMotionGroup
                                                  /\ log[k].index = 0
                         ELSE mine = {},
             handled |-> \E k \in mine : log[k].ok]
       [] a = "blink" ->
            [calls |-> IF ctl[i].modelRef
                         THEN /\ Cardinality(mine) = 1
                              /\ \A k \in mine : /\ log[k].op = "expression"
                                                  /\ log[k].arg = "exp_01"
                         ELSE mine = {},
             handled |-> TRUE]
       [] OTHER -> [calls |-> TRUE, handled |-> a = "miss"]

\* C33: a bridge call first invokes the previously installed handler and
\* then dispatches: 'morning' and 'night' request a motion of the idle group
\* that nothing suppresses, 'blink' requests expression exp_01, and the
\* ambient timer is re-armed with the cooldown exactly when the dispatch was
\* handled ('morning' and 'night': when the motion request returned true).
C33_BridgeChainsThenDispatches ==
  [][\A a \in Actions :
       BridgeCalled(a) =>
         /\ \A k, l \in DOMAIN emitted' :
              (emitted'[k].c = charAction /\ emitted'[l].c # charAction) => l < k
         /\ \A i \in Reached(ctl, charAction) \cap Controllers :
              LET r == Requested(emitted', i, a)
              IN /\ r.calls
                 /\ IF r.handled
                      THEN Rearmed(ctl'[i], INTERACTION_COOLDOWN, INTERACTION_COOLDOWN + 1)
                      ELSE ctl'[i].timers = ctl[i].timers]_vars

\* 'night' reached two ready controllers through the chain: the handler
\* installed first ran first and its motion request threw, so that its timer
\* of 7000 ms stayed; the handler installed last re-armed with 4500 ms.
C33_Witness ==
  /\ charAction = 2
  /\ Ready(ctl[1]) /\ Ready(ctl[2])
  /\ Len(emitted) = 2
  /\ emitted[1] = Call(1, "motion", idleMotionGroup, 0, FALSE)
  /\ emitted[2] = Call(2, "motion", idleMotionGroup, 0, TRUE)
  /\ \A t \in ctl[1].timers : t.delay = MIN_AMBIENT_DELAY
  /\ \A t \in ctl[2].timers : t.delay = INTERACTION_COOLDOWN

\* The motion requests and the expression requests of controller i in a log.
MotionRequests(log, i) == {k \in EmittedBy(log, i) : log[k].op = "motion"}

ExpressionRequests(log, i) == {k \in EmittedBy(log, i) : log[k].op = "expression"}

UnitAreaScale(c) ==
  LET layoutProfile == getLayoutProfile(c.width, c.height)
  IN clampValue(Min((1000 * layoutProfile.scaleFactor * 10) \div c.nativeWidth,
                    (1000 * layoutProfile.scaleFactor * 10) \div c.nativeHeight),
                layoutProfile.minScale * 10000, layoutProfile.maxScale * 10000)

\* C35: for a container whose width or height is zero or negative the
\* layout is computed without error and the scale lies within the scale
\* bounds of the selected profile; a side that is zero or negative counts as
\* an available length of 1, so that with both sides zero or negative the
\* scale is that of an available area of 1 x 1.
C35_DegenerateSizeScaleWithinBounds ==
  \A i \in Controllers :
    (ctl[i].status = "ready" /\ (ctl[i].width <= 0 \/ ctl[i].height <= 0)) =>
      LET layoutProfile == getLayoutProfile(ctl[i].width, ctl[i].height)
      IN /\ ctl[i].layout.scale >= layoutProfile.minScale * 10000
         /\ ctl[i].layout.scale <= layoutProfile.maxScale * 10000
         /\ (ctl[i].width <= 0 /\ ctl[i].height <= 0) =>
              ctl[i].layout.scale = UnitAreaScale(ctl[i])

\* A model without canvas size became ready in a container of 0 x 0 and
\* was given the largest scale of the narrow profile.
C35_Witness ==
  \E i \in Controllers :
    /\ ctl[i].status = "ready"
    /\ ctl[i].width = 0 /\ ctl[i].height = 0
    /\ ctl[i].nativeWidth = 1
    /\ ctl[i].layout.scale = getLayoutProfile(0, 0).maxScale * 10000

\* What every idle prompt of the chat was sent with, whatever the input box
\* held: a visible document, no reply awaited, both the last user message
\* and the last character-initiated message at least the minimum gap old;
\* and at most one idle timer is pending.
IdlePromptGuarded ==
  /\ chat.sent > 0 =>
       /\ ~chat.sentWith.hidden
       /\ ~chat.sentWith.isTyping
       /\ chat.sentWith.lastUserAge >= minimumGap(chat.idleRangeMs)
       /\ chat.sentWith.lastCharacterAge >= minimumGap(chat.idleRangeMs)
  /\ Cardinality(chat.timers) <= 1

\* C36 as stated: the chat sends an idle prompt only when, as its timer
\* fires, the document is visible, no reply is awaited, the input box is
\* empty, and the last user message and the last character-initiated message
\* are both at least max(0.8 * persona minimum delay, 30000) ms old; at most
\* one idle timer is pending at any time.
C36_IdlePromptOnlyWhenInputEmpty ==
  /\ IdlePromptGuarded
  /\ chat.sent > 0 => chat.sentWith.inputText = ""

\* C36 as amended: as above, with an input box that is empty or holds only
\* white space.
C36_IdlePromptOnlyWhenInputBlank ==
  /\ IdlePromptGuarded
  /\ chat.sent > 0 => trim(chat.sentWith.inputText) = ""

\* An idle prompt was sent while the input box held a space, and the idle
\* timer was armed again.
C36_Witness ==
  /\ chat.sent = 1
  /\ chat.sentWith.inputText = " "
  /\ Cardinality(chat.timers) = 1

\* The idle timer of the mounted chat fires in this step and a guard of
\* maybeSendIdlePrompt suppresses the prompt.
IdleSuppressed ==
  /\ chat.life = "mounted" /\ chat'.life = "mounted"
  /\ \E t \in chat.timers : t.left = 0 /\ t.id = chat.idleTimerRef /\ chat'.idleTimerRef = t.id
  /\ chat'.sent = chat.sent
  /\ chat'.inputText = chat.inputText /\ chat'.isTyping = chat.isTyping
  /\ \/ documentHidden
     \/ chat.isTyping
     \/ trim(chat.inputText) # ""
     \/ chat.lastUserAge < minimumGap(chat.idleRangeMs)
     \/ chat.lastCharacterAge < minimumGap(chat.idleRangeMs)

\* C37: while the chat is mounted its idle loop keeps running: when the idle
\* timer fires and a guard suppresses the prompt, an idle timer is pending
\* afterwards.
C37_SuppressedFireRearms ==
  [][IdleSuppressed => chat'.timers # {}]_vars

\* C38: after the teardown of a controller no ambient timer of that
\* controller is armed again, also when the bridge handler it installed is
\* still called afterwards.
C38_NoTimerArmedAfterTeardown ==
  [][\A i \in Controllers :
       ctl[i].life = "unmounted" => ctl'[i].timers \subseteq ctl[i].timers]_vars

\* C39: every surface and every model is destroyed at most once, however
\* the unmount interleaves with the pending model load.
C39_DestroyedAtMostOnce ==
  \A i \in Controllers :
    ctl[i].appDestroys <= 1 /\ ctl[i].modelDestroys <= 1

\* A pointerdown at p is delivered to controller i in this step.
PressedAt(i, p) == PointerDown(i, p)

\* The press of controller i ends in this step, by pointerup,
\* pointerupoutside or pointercancel.
Released(i) ==
  ctl[i].gesture.phase = "down" /\ ctl'[i].gesture.phase = "ended"

\* A pointermove is delivered to controller i in this step while no pointer
\* is down.
MovedWhileUp(i) ==
  /\ ~ctl[i].pointerState.isDown
  /\ \E p \in FinePoints, ok \in BOOLEAN, rDelay \in RandomDraws :
       PointerMove(i, p, ok, rDelay, MaxMoves)

\* C40: the gesture state is transient per interaction: pointerdown sets
\* isDown, records the position of the pointer and clears hasDragged;
\* pointerup, pointerupoutside and pointercancel leave isDown = false,
\* hasDragged = false and the position (0, 0); a pointermove while no
\* pointer is down changes nothing and emits no gesture.
C40_GestureStateIsTransient ==
  [][\A i \in Controllers :
       /\ \A p \in FinePoints :
            PressedAt(i, p) =>
              ctl'[i].pointerState =
                [isDown |-> TRUE, hasDragged |-> FALSE, lastX |-> p.x, lastY |-> p.y]
       /\ Released(i) => ctl'[i].pointerState = InitPointerState
       /\ MovedWhileUp(i) => ctl'[i] = ctl[i] /\ emitted' = <<>>]_vars

\* A press that moved over the pet threshold was cancelled or released
\* outside the model, and the pointer state is back at its initial value.
C40_Witness ==
  \E i \in Controllers :
    /\ ctl[i].gesture.phase = "ended"
    /\ ctl[i].gesture.end \in {"outside", "cancel"}
    /\ ctl[i].gesture.pets > 0
    /\ ctl[i].pointerState = InitPointerState

====
